---- MODULE Spec2Model ----
(***************************************************************************)
(* Model of the zip crate (src/src/lib.rs): the tuple structs Zip2..Zip5   *)
(* and their Iterator implementations (next, size_hint).                   *)
(*                                                                         *)
(* A wrapped producer is any `Iterator`.  A leaf producer is modelled by   *)
(* the script of what its successive next() calls return: an element       *)
(* ("some"), ordinary exhaustion ("none", which a non-fused iterator may   *)
(* follow with more elements) or a panic ("panic").  Past the end of its   *)
(* script a producer reports exhaustion forever.  The t-th element of      *)
(* producer id is the number Elem(id, t), so that a tuple shows which       *)
(* producer and which index each of its components came from.              *)
(***************************************************************************)
EXTENDS Integers, Sequences, FiniteSets, TLC

\* ---------------------------------------------------------------- bounds
\* Most elements a leaf producer holds.
MaxLen == 2
\* Largest amount by which a leaf producer's size_hint may be inexact.
MaxSlack == 1
\* Calls of next() made on one zipper (the counters are capped).
MaxCalls == MaxLen + 3

VARIABLES
    zip,        \* the zipper under test: a Zip2..Zip5 value owning its producers
    prev,       \* the zipper as it was before the last operation
    op,         \* the last operation: "new", "next" or "size_hint"
    out,        \* what the last next() returned: Some(tuple), None or a panic
    log,        \* the leaf producers pulled by the last next(), in pull order
    hint,       \* what the last operation returned, when it was a size_hint()
    produced,   \* every tuple returned so far, in order
    exhausted,  \* TRUE once a next() has returned None
    drained,    \* number of tuples returned before the first None
    calls,      \* number of next() calls made so far
    nest        \* Zip2(Zip2(P1, P2), P3), run side by side with zip = Zip3(P1, P2, P3)

vars == <<zip, prev, op, out, log, hint, produced, exhausted, drained, calls, nest>>

\* ---------------------------------------------------------------- Option
None == [kind |-> "none", v |-> <<>>]

Some(x) == [kind |-> "some", v |-> x]

\* A panic unwinding out of a call with payload x: neither a value nor exhaustion.
Panic(x) == [kind |-> "panic", v |-> x]

\* What a call yields: its return value, the receiver afterwards, the pulls made.
Ret(o, s, l) == [out |-> o, self |-> s, log |-> l]

\* ---------------------------------------------------------------- leaf producers
Elem(id, t) == id * 100 + t

Count(s, from, kinds) == Cardinality({i \in from..Len(s) : s[i] \in kinds})

\* Elements the producer has yielded so far.
Yielded(p) == Cardinality({i \in 1..p.pos : p.script[i] = "some"})

\* Elements the producer yields before it next reports exhaustion (or panics).
UntilNone(p) ==
    LET stops == {i \in (p.pos + 1)..Len(p.script) : p.script[i] # "some"}
        stop == IF stops = {} THEN Len(p.script) + 1
                ELSE CHOOSE i \in stops : \A j \in stops : i <= j
    IN stop - (p.pos + 1)

\* Elements left in the producer's script.
Remaining(p) == Count(p.script, p.pos + 1, {"some"})

\* Iterator::next of a leaf producer.
IterNext(p) ==
    IF p.pos >= Len(p.script)
    THEN Ret(None, [p EXCEPT !.pulls = @ + 1], <<p.id>>)
    ELSE LET k == p.script[p.pos + 1]
             o == IF k = "some" THEN Some(Elem(p.id, Yielded(p)))
                  ELSE IF k = "none" THEN None ELSE Panic(<<p.id, p.pos>>)
         IN Ret(o, [p EXCEPT !.pos = @ + 1, !.pulls = @ + 1], <<p.id>>)

\* Iterator::size_hint of a leaf producer: (lower, upper), upper None when unknown.
IterSizeHint(p) ==
    <<IF UntilNone(p) > p.slack THEN UntilNone(p) - p.slack ELSE 0,
      IF p.hiKnown THEN Some(Remaining(p) + p.slack) ELSE None>>

\* ---------------------------------------------------------------- the zippers
Zip2(a, b) == [type |-> "Zip2", f |-> <<a, b>>]

Zip3(a, b, c) == [type |-> "Zip3", f |-> <<a, b, c>>]

Zip4(a, b, c, d) == [type |-> "Zip4", f |-> <<a, b, c, d>>]

Zip5(a, b, c, d, e) == [type |-> "Zip5", f |-> <<a, b, c, d, e>>]

\* std::cmp::min
StdMin(x, y) == IF y < x THEN y ELSE x

\* The min! macro over its argument list.
RECURSIVE min(_)
min(xs) == IF Len(xs) = 1 THEN xs[1] ELSE StdMin(xs[1], min(Tail(xs)))

\* `if let Some(x) = ... { ... }` not taken: fall through to the trailing None,
\* unless the pull panicked, which unwinds out of next() with the same payload.
\* (FallCaught: the panic is caught and reported as exhaustion.)
FallCaught(o) == None

Fall(o) == IF o.kind = "panic" THEN o ELSE None

RECURSIVE Zip2Next(_), Zip2SizeHint(_)

\* next() of a wrapped producer: a leaf producer, or a Zip2, which is an
\* Iterator itself and may be wrapped in turn.
ProducerNext(p) == IF p.type = "Zip2" THEN Zip2Next(p) ELSE IterNext(p)

\* size_hint() of a wrapped producer.
ProducerSizeHint(p) == IF p.type = "Zip2" THEN Zip2SizeHint(p) ELSE IterSizeHint(p)

\* Zip2Next pulling both producers before it looks at either result.
Zip2NextEager(self) ==
    LET ra == ProducerNext(self.f[1])
        rb == ProducerNext(self.f[2])
    IN IF ra.out.kind = "some" /\ rb.out.kind = "some"
       THEN Ret(Some(<<ra.out.v, rb.out.v>>),
                [self EXCEPT !.f = <<ra.self, rb.self>>], ra.log \o rb.log)
       ELSE Ret(IF ra.out.kind = "some" THEN Fall(rb.out) ELSE Fall(ra.out),
                [self EXCEPT !.f = <<ra.self, rb.self>>], ra.log \o rb.log)

\* Zip2Next putting the first element back when the second producer is exhausted.
Zip2NextPutBack(self) ==
    LET ra == ProducerNext(self.f[1]) IN
    IF ra.out.kind = "some" THEN
        LET rb == ProducerNext(self.f[2]) IN
        IF rb.out.kind = "some"
        THEN Ret(Some(<<ra.out.v, rb.out.v>>),
                 [self EXCEPT !.f = <<ra.self, rb.self>>], ra.log \o rb.log)
        ELSE Ret(Fall(rb.out),
                 [self EXCEPT !.f[2] = rb.self], ra.log \o rb.log)
    ELSE Ret(Fall(ra.out), [self EXCEPT !.f[1] = ra.self], ra.log)

Zip2Next(self) ==
    LET ra == ProducerNext(self.f[1]) IN
    IF ra.out.kind = "some" THEN
        LET rb == ProducerNext(self.f[2]) IN
        IF rb.out.kind = "some"
        THEN Ret(Some(<<ra.out.v, rb.out.v>>),
                 [self EXCEPT !.f = <<ra.self, rb.self>>], ra.log \o rb.log)
        ELSE Ret(Fall(rb.out),
                 [self EXCEPT !.f = <<ra.self, rb.self>>], ra.log \o rb.log)
    ELSE Ret(Fall(ra.out), [self EXCEPT !.f[1] = ra.self], ra.log)

\* Zip2SizeHint taking the larger of the two lower bounds.
Zip2SizeHintMax(self) ==
    <<IF ProducerSizeHint(self.f[1])[1] > ProducerSizeHint(self.f[2])[1]
      THEN ProducerSizeHint(self.f[1])[1] ELSE ProducerSizeHint(self.f[2])[1], None>>

Zip2SizeHint(self) ==
    <<min(<<ProducerSizeHint(self.f[1])[1],
            ProducerSizeHint(self.f[2])[1]>>), None>>

\* Zip3Next building the tuple as (a, c, b).
Zip3NextSwapped(self) ==
    LET ra == ProducerNext(self.f[1]) IN
    IF ra.out.kind = "some" THEN
        LET rb == ProducerNext(self.f[2]) IN
        IF rb.out.kind = "some" THEN
            LET rc == ProducerNext(self.f[3])
                s == [self EXCEPT !.f = <<ra.self, rb.self, rc.self>>]
                l == ra.log \o rb.log \o rc.log
            IN
            IF rc.out.kind = "some"
            THEN Ret(Some(<<ra.out.v, rc.out.v, rb.out.v>>), s, l)
            ELSE Ret(Fall(rc.out), s, l)
        ELSE Ret(Fall(rb.out),
                 [self EXCEPT !.f[1] = ra.self, !.f[2] = rb.self], ra.log \o rb.log)
    ELSE Ret(Fall(ra.out), [self EXCEPT !.f[1] = ra.self], ra.log)

\* Zip3Next returning (a, b, b) when the third producer is exhausted.
Zip3NextPadded(self) ==
    LET ra == ProducerNext(self.f[1]) IN
    IF ra.out.kind = "some" THEN
        LET rb == ProducerNext(self.f[2]) IN
        IF rb.out.kind = "some" THEN
            LET rc == ProducerNext(self.f[3])
                s == [self EXCEPT !.f = <<ra.self, rb.self, rc.self>>]
                l == ra.log \o rb.log \o rc.log
            IN
            IF rc.out.kind = "some"
            THEN Ret(Some(<<ra.out.v, rb.out.v, rc.out.v>>), s, l)
            ELSE IF rc.out.kind = "none"
            THEN Ret(Some(<<ra.out.v, rb.out.v, rb.out.v>>), s, l)
            ELSE Ret(Fall(rc.out), s, l)
        ELSE Ret(Fall(rb.out),
                 [self EXCEPT !.f[1] = ra.self, !.f[2] = rb.self], ra.log \o rb.log)
    ELSE Ret(Fall(ra.out), [self EXCEPT !.f[1] = ra.self], ra.log)

Zip3Next(self) ==
    LET ra == ProducerNext(self.f[1]) IN
    IF ra.out.kind = "some" THEN
        LET rb == ProducerNext(self.f[2]) IN
        IF rb.out.kind = "some" THEN
            LET rc == ProducerNext(self.f[3])
                s == [self EXCEPT !.f = <<ra.self, rb.self, rc.self>>]
                l == ra.log \o rb.log \o rc.log
            IN
            IF rc.out.kind = "some"
            THEN Ret(Some(<<ra.out.v, rb.out.v, rc.out.v>>), s, l)
            ELSE Ret(Fall(rc.out), s, l)
        ELSE Ret(Fall(rb.out),
                 [self EXCEPT !.f[1] = ra.self, !.f[2] = rb.self], ra.log \o rb.log)
    ELSE Ret(Fall(ra.out), [self EXCEPT !.f[1] = ra.self], ra.log)

Zip3SizeHint(self) ==
    <<min(<<ProducerSizeHint(self.f[1])[1],
            ProducerSizeHint(self.f[2])[1],
            ProducerSizeHint(self.f[3])[1]>>), None>>

\* Zip4Next pulling all four producers before it looks at any result.
Zip4NextEager(self) ==
    LET ra == ProducerNext(self.f[1])
        rb == ProducerNext(self.f[2])
        rc == ProducerNext(self.f[3])
        rd == ProducerNext(self.f[4])
        s == [self EXCEPT !.f = <<ra.self, rb.self, rc.self, rd.self>>]
        l == ra.log \o rb.log \o rc.log \o rd.log
    IN IF \A r \in {ra, rb, rc, rd} : r.out.kind = "some"
       THEN Ret(Some(<<ra.out.v, rb.out.v, rc.out.v, rd.out.v>>), s, l)
       ELSE Ret(IF ra.out.kind # "some" THEN Fall(ra.out)
                ELSE IF rb.out.kind # "some" THEN Fall(rb.out)
                ELSE IF rc.out.kind # "some" THEN Fall(rc.out)
                ELSE Fall(rd.out), s, l)

Zip4Next(self) ==
    LET ra == ProducerNext(self.f[1]) IN
    IF ra.out.kind = "some" THEN
        LET rb == ProducerNext(self.f[2]) IN
        IF rb.out.kind = "some" THEN
            LET rc == ProducerNext(self.f[3]) IN
            IF rc.out.kind = "some" THEN
                LET rd == ProducerNext(self.f[4])
                    s == [self EXCEPT !.f = <<ra.self, rb.self, rc.self, rd.self>>]
                    l == ra.log \o rb.log \o rc.log \o rd.log
                IN
                IF rd.out.kind = "some"
                THEN Ret(Some(<<ra.out.v, rb.out.v, rc.out.v, rd.out.v>>), s, l)
                ELSE Ret(Fall(rd.out), s, l)
            ELSE Ret(Fall(rc.out),
                     [self EXCEPT !.f[1] = ra.self, !.f[2] = rb.self, !.f[3] = rc.self],
                     ra.log \o rb.log \o rc.log)
        ELSE Ret(Fall(rb.out),
                 [self EXCEPT !.f[1] = ra.self, !.f[2] = rb.self], ra.log \o rb.log)
    ELSE Ret(Fall(ra.out), [self EXCEPT !.f[1] = ra.self], ra.log)

\* Zip4SizeHint reporting the least upper bound when all four are known.
Zip4SizeHintUpper(self) ==
    LET hs == [j \in 1..4 |-> ProducerSizeHint(self.f[j])]
    IN <<min([j \in 1..4 |-> hs[j][1]]),
         IF \A j \in 1..4 : hs[j][2].kind = "some"
         THEN Some(min([j \in 1..4 |-> hs[j][2].v])) ELSE None>>

Zip4SizeHint(self) ==
    <<min(<<ProducerSizeHint(self.f[1])[1],
            ProducerSizeHint(self.f[2])[1],
            ProducerSizeHint(self.f[3])[1],
            ProducerSizeHint(self.f[4])[1]>>), None>>

\* Zip5Next without the check of the fifth producer's result.
Zip5NextUnchecked(self) ==
    LET ra == ProducerNext(self.f[1]) IN
    IF ra.out.kind = "some" THEN
        LET rb == ProducerNext(self.f[2]) IN
        IF rb.out.kind = "some" THEN
            LET rc == ProducerNext(self.f[3]) IN
            IF rc.out.kind = "some" THEN
                LET rd == ProducerNext(self.f[4]) IN
                IF rd.out.kind = "some" THEN
                    LET re == ProducerNext(self.f[5])
                        s == [self EXCEPT
                                 !.f = <<ra.self, rb.self, rc.self, rd.self, re.self>>]
                        l == ra.log \o rb.log \o rc.log \o rd.log \o re.log
                    IN
                    IF re.out.kind # "panic"
                    THEN Ret(Some(<<ra.out.v, rb.out.v, rc.out.v, rd.out.v, re.out.v>>),
                             s, l)
                    ELSE Ret(Fall(re.out), s, l)
                ELSE Ret(Fall(rd.out),
                         [self EXCEPT !.f[1] = ra.self, !.f[2] = rb.self,
                                      !.f[3] = rc.self, !.f[4] = rd.self],
                         ra.log \o rb.log \o rc.log \o rd.log)
            ELSE Ret(Fall(rc.out),
                     [self EXCEPT !.f[1] = ra.self, !.f[2] = rb.self, !.f[3] = rc.self],
                     ra.log \o rb.log \o rc.log)
        ELSE Ret(Fall(rb.out),
                 [self EXCEPT !.f[1] = ra.self, !.f[2] = rb.self], ra.log \o rb.log)
    ELSE Ret(Fall(ra.out), [self EXCEPT !.f[1] = ra.self], ra.log)

Zip5Next(self) ==
    LET ra == ProducerNext(self.f[1]) IN
    IF ra.out.kind = "some" THEN
        LET rb == ProducerNext(self.f[2]) IN
        IF rb.out.kind = "some" THEN
            LET rc == ProducerNext(self.f[3]) IN
            IF rc.out.kind = "some" THEN
                LET rd == ProducerNext(self.f[4]) IN
                IF rd.out.kind = "some" THEN
                    LET re == ProducerNext(self.f[5])
                        s == [self EXCEPT
                                 !.f = <<ra.self, rb.self, rc.self, rd.self, re.self>>]
                        l == ra.log \o rb.log \o rc.log \o rd.log \o re.log
                    IN
                    IF re.out.kind = "some"
                    THEN Ret(Some(<<ra.out.v, rb.out.v, rc.out.v, rd.out.v, re.out.v>>),
                             s, l)
                    ELSE Ret(Fall(re.out), s, l)
                ELSE Ret(Fall(rd.out),
                         [self EXCEPT !.f[1] = ra.self, !.f[2] = rb.self,
                                      !.f[3] = rc.self, !.f[4] = rd.self],
                         ra.log \o rb.log \o rc.log \o rd.log)
            ELSE Ret(Fall(rc.out),
                     [self EXCEPT !.f[1] = ra.self, !.f[2] = rb.self, !.f[3] = rc.self],
                     ra.log \o rb.log \o rc.log)
        ELSE Ret(Fall(rb.out),
                 [self EXCEPT !.f[1] = ra.self, !.f[2] = rb.self], ra.log \o rb.log)
    ELSE Ret(Fall(ra.out), [self EXCEPT !.f[1] = ra.self], ra.log)

Zip5SizeHint(self) ==
    <<min(<<ProducerSizeHint(self.f[1])[1],
            ProducerSizeHint(self.f[2])[1],
            ProducerSizeHint(self.f[3])[1],
            ProducerSizeHint(self.f[4])[1],
            ProducerSizeHint(self.f[5])[1]>>), None>>

\* ---------------------------------------------------------------- construction
Somes(n) == [i \in 1..n |-> "some"]

Iter(id, script, slack, hiKnown) ==
    [type |-> "Iter", id |-> id, script |-> script, pos |-> 0, pulls |-> 0,
     slack |-> slack, hiKnown |-> hiKnown]

\* A finite, fused producer of n elements whose size_hint is exact, as a slice
\* iterator or a range is.
Plain(id, n) == Iter(id, Somes(n), 0, TRUE)

\* The other producers an `Iterator` bound admits: one that panics when pulled,
\* one that yields again after reporting exhaustion (not fused), one whose
\* size_hint is a loose lower bound, one whose upper bound is unknown.
OddIters(id) ==
    {Iter(id, Somes(n) \o <<"panic">>, 0, TRUE) : n \in 0..MaxLen}
    \cup {Iter(id, Somes(nm[1]) \o <<"none">> \o Somes(nm[2]), 0, TRUE) :
            nm \in {x \in (0..MaxLen) \X (1..MaxLen) : x[1] + x[2] <= MaxLen}}
    \cup {Iter(id, Somes(ns[1]), ns[2], TRUE) : ns \in (0..MaxLen) \X (1..MaxSlack)}
    \cup {Iter(id, Somes(n), 0, FALSE) : n \in 0..MaxLen}

PlainTuples(k) == {[j \in 1..k |-> Plain(j, c[j])] : c \in [1..k -> 0..MaxLen]}

\* The producers handed to a zipper of arity k: plain ones, at most one of them odd.
Producers(k) ==
    PlainTuples(k)
    \cup UNION {{[z EXCEPT ![d] = o] :
                    z \in {y \in PlainTuples(k) : y[d].script = <<>>}, o \in OddIters(d)} :
                d \in 1..k}

\* The tuple-struct constructor for k producers.
ZipOf(z) ==
    CASE Len(z) = 2 -> Zip2(z[1], z[2])
      [] Len(z) = 3 -> Zip3(z[1], z[2], z[3])
      [] Len(z) = 4 -> Zip4(z[1], z[2], z[3], z[4])
      [] Len(z) = 5 -> Zip5(z[1], z[2], z[3], z[4], z[5])

NoHint == <<>>

NoNest == [zip |-> <<>>, out |-> None, log |-> <<>>]

Fresh(z) ==
    /\ zip = z
    /\ prev = z
    /\ op = "new"
    /\ out = None
    /\ log = <<>>
    /\ hint = NoHint
    /\ produced = <<>>
    /\ exhausted = FALSE
    /\ drained = 0
    /\ calls = 0

Init ==
    /\ \E k \in 2..5 : \E z \in Producers(k) : Fresh(ZipOf(z))
    /\ nest = NoNest

\* ---------------------------------------------------------------- operations
\* The caller's bookkeeping around one next() call that returned r.
Called(r) ==
    /\ calls < MaxCalls
    /\ out.kind # "panic"
    /\ zip' = r.self
    /\ prev' = zip
    /\ op' = "next"
    /\ out' = r.out
    /\ log' = r.log
    /\ hint' = NoHint
    /\ produced' = IF r.out.kind = "some" THEN Append(produced, r.out.v) ELSE produced
    /\ exhausted' = (exhausted \/ r.out.kind = "none")
    /\ drained' = IF ~exhausted /\ r.out.kind = "some" THEN drained + 1 ELSE drained
    /\ calls' = calls + 1

\* The caller's bookkeeping around one size_hint() call that returned h: the
\* receiver is borrowed immutably.
Hinted(h) ==
    /\ out.kind # "panic"
    /\ op' = "size_hint"
    /\ hint' = h
    /\ prev' = zip
    /\ UNCHANGED <<zip, out, log, produced, exhausted, drained, calls>>

CallZip2Next == zip.type = "Zip2" /\ Called(Zip2Next(zip)) /\ UNCHANGED nest

CallZip3Next == zip.type = "Zip3" /\ Called(Zip3Next(zip)) /\ UNCHANGED nest

CallZip4Next == zip.type = "Zip4" /\ Called(Zip4Next(zip)) /\ UNCHANGED nest

CallZip5Next == zip.type = "Zip5" /\ Called(Zip5Next(zip)) /\ UNCHANGED nest

CallZip2SizeHint == zip.type = "Zip2" /\ Hinted(Zip2SizeHint(zip)) /\ UNCHANGED nest

CallZip3SizeHint == zip.type = "Zip3" /\ Hinted(Zip3SizeHint(zip)) /\ UNCHANGED nest

CallZip4SizeHint == zip.type = "Zip4" /\ Hinted(Zip4SizeHint(zip)) /\ UNCHANGED nest

\* A size_hint that advances the zipper it estimates.
CallZip5SizeHintPulls ==
    /\ zip.type = "Zip5"
    /\ out.kind # "panic"
    /\ op' = "size_hint"
    /\ hint' = Zip5SizeHint(zip)
    /\ prev' = zip
    /\ zip' = Zip5Next(zip).self
    /\ UNCHANGED <<out, log, produced, exhausted, drained, calls, nest>>

CallZip5SizeHint == zip.type = "Zip5" /\ Hinted(Zip5SizeHint(zip)) /\ UNCHANGED nest

Next ==
    \/ CallZip2Next
    \/ CallZip3Next
    \/ CallZip4Next
    \/ CallZip5Next
    \/ CallZip2SizeHint
    \/ CallZip3SizeHint
    \/ CallZip4SizeHint
    \/ CallZip5SizeHint

Spec == Init /\ [][Next]_vars

\* ---------------------------------------------------------------- nesting
\* Producers of every script, for the side-by-side run of a nested and a flat zipper.
ScriptedIters(id) ==
    {Plain(id, n) : n \in 0..MaxLen}
    \cup {p \in OddIters(id) : p.slack = 0 /\ p.hiKnown}

InitNest ==
    \E a \in ScriptedIters(1), b \in ScriptedIters(2), c \in ScriptedIters(3) :
        /\ Fresh(Zip3(a, b, c))
        /\ nest = [zip |-> Zip2(Zip2(a, b), c), out |-> None, log |-> <<>>]

\* One next() on the flat Zip3 and one on the nested Zip2 of a Zip2.
CallBothNext ==
    /\ nest.out.kind # "panic"
    /\ Called(Zip3Next(zip))
    /\ LET r == Zip2Next(nest.zip)
       IN nest' = [zip |-> r.self, out |-> r.out, log |-> r.log]

NextNest == CallBothNext

SpecNest == InitNest /\ [][NextNest]_vars

\* ---------------------------------------------------------------- vocabulary of the properties
\* The arity of the zipper under test.
K == Len(zip.f)

\* A finite sequence: it yields its elements, then reports exhaustion forever.
IsFinite(p) == \A i \in 1..Len(p.script) : p.script[i] = "some"

AllFinite == \A j \in 1..K : IsFinite(zip.f[j])

\* The number of elements producer j was constructed with.
N(j) == Count(zip.f[j].script, 1, {"some"})

Least(S) == CHOOSE m \in S : \A x \in S : m <= x

MinN == Least({N(j) : j \in 1..K})

\* The positions whose producer, as it stood before the last call, would not
\* yield an element when pulled.
Stops(z) == {j \in 1..Len(z.f) : ProducerNext(z.f[j]).out.kind # "some"}

\* How many positions the last call had to pull: up to the first that stops.
Reach(z) == IF Stops(z) = {} THEN Len(z.f) ELSE Least(Stops(z))

\* C1: producers that are finite sequences of n1..nK elements: the calls before
\* the first exhaustion each return a tuple, there are at most min(n1..nK) of
\* them, and once exhaustion was reported exactly min(n1..nK) tuples had been
\* returned before it.
C1_Length ==
    AllFinite =>
        IF exhausted
        THEN drained = MinN
        ELSE drained = calls /\ Len(produced) = calls /\ calls <= MinN

\* lengths 2 and 1 drained by a Zip2: exactly 1 tuple
C1_Witness ==
    /\ zip.type = "Zip2" /\ AllFinite /\ N(1) = 2 /\ N(2) = 1
    /\ exhausted /\ drained = 1

\* C2: the t-th tuple returned before the first exhaustion is
\* (x1[t], ..., xK[t]), xj[t] the t-th element of producer j: declared order,
\* unaltered, all of the same index.
C2_TupleShape ==
    \A t \in 1..drained :
        /\ Len(produced[t]) = K
        /\ \A j \in 1..K : produced[t][j] = Elem(zip.f[j].id, t - 1)

\* three producers of 2 elements each in a Zip3: the second tuple is (x1[1], x2[1], x3[1])
C2_Witness ==
    /\ zip.type = "Zip3" /\ drained = 2
    /\ produced[2] = <<Elem(1, 1), Elem(2, 1), Elem(3, 1)>>

\* C3: one call pulls the producers in index order 1, 2, ..., each once, and
\* stops at the first that does not yield; a producer that is empty from the
\* start keeps the tuples at zero and every producer after it at zero pulls.
C3_ShortCircuit ==
    /\ op = "next" =>
        /\ log = [j \in 1..Reach(prev) |-> prev.f[j].id]
        /\ \A j \in 1..K :
              zip.f[j].pulls = prev.f[j].pulls + (IF j <= Reach(prev) THEN 1 ELSE 0)
        /\ \A j \in (Reach(prev) + 1)..K : zip.f[j] = prev.f[j]
    /\ \A i \in 1..K :
          zip.f[i].script = <<>> =>
              /\ produced = <<>>
              /\ \A j \in (i + 1)..K : zip.f[j].pulls = 0

\* a Zip5 whose third producer is empty, the others not, after two calls
C3_Witness ==
    /\ zip.type = "Zip5" /\ op = "next" /\ calls = 2
    /\ zip.f[3].script = <<>>
    /\ \A j \in {1, 2, 4, 5} : N(j) = MaxLen
    /\ log = <<1, 2, 3>>
    /\ zip.f[4].pulls = 0 /\ zip.f[5].pulls = 0 /\ zip.f[1].pulls = 2

\* The producers' own lower-bound estimates.
Lowers == {ProducerSizeHint(zip.f[j])[1] : j \in 1..K}

\* C4: size_hint returns the least of the K producers' own lower bounds, and
\* None as the upper bound, also when every producer reports an upper bound.
C4_SizeHint ==
    op = "size_hint" => hint = <<Least(Lowers), None>>

\* a Zip4 of producers that all know their upper bound, with unequal lower bounds
C4_Witness ==
    /\ zip.type = "Zip4" /\ op = "size_hint"
    /\ \A j \in 1..K : ProducerSizeHint(zip.f[j])[2].kind = "some"
    /\ Cardinality(Lowers) > 1
    /\ hint[1] = 1 /\ hint[2] = None

\* next() of z, a leaf producer or a zipper of any arity.
NextOf(z) ==
    CASE z.type = "Iter" -> IterNext(z)
      [] z.type = "Zip2" -> Zip2Next(z)
      [] z.type = "Zip3" -> Zip3Next(z)
      [] z.type = "Zip4" -> Zip4Next(z)
      [] z.type = "Zip5" -> Zip5Next(z)

\* size_hint() of a zipper of any arity.
SizeHintOf(z) ==
    CASE z.type = "Zip2" -> Zip2SizeHint(z)
      [] z.type = "Zip3" -> Zip3SizeHint(z)
      [] z.type = "Zip4" -> Zip4SizeHint(z)
      [] z.type = "Zip5" -> Zip5SizeHint(z)

\* The number of tuples that draining z from its present state returns.
RECURSIVE Drain(_)
Drain(z) ==
    LET r == NextOf(z)
    IN IF r.out.kind = "some" THEN 1 + Drain(r.self) ELSE 0

\* C5: whenever size_hint is called, the producers' own lower bounds being no
\* more than what they still yield, the lower bound it returns is no more
\* than the number of tuples that draining the zipper from there returns.
C5_LowerSound ==
    (/\ op = "size_hint"
     /\ \A j \in 1..K : ProducerSizeHint(zip.f[j])[1] <= Drain(zip.f[j]))
        => hint[1] <= Drain(zip)

\* a size_hint taken after exhaustion was reported, its lower bound not zero
C5_Witness ==
    /\ op = "size_hint" /\ exhausted /\ calls >= 2
    /\ hint[1] >= 1 /\ hint[1] = Drain(zip)

\* C7: a call that reports exhaustion at producer i has advanced every
\* producer before i by exactly one element, which is neither returned nor put
\* back, and left the producers after i as they were; after the drain of finite
\* sequences (m the least count, i the first producer holding it) the producers
\* before i have given up m + 1 elements and those from i on m.
C7_NoRollback ==
    /\ (op = "next" /\ out.kind = "none") =>
          /\ \A j \in 1..(Reach(prev) - 1) :
                /\ Yielded(zip.f[j]) = Yielded(prev.f[j]) + 1
                /\ Remaining(zip.f[j]) = Remaining(prev.f[j]) - 1
          /\ \A j \in (Reach(prev) + 1)..K : zip.f[j] = prev.f[j]
          /\ Yielded(zip.f[Reach(prev)]) = Yielded(prev.f[Reach(prev)])
    /\ (AllFinite /\ exhausted /\ calls = drained + 1) =>
          LET i == Least({j \in 1..K : N(j) = MinN})
          IN \A j \in 1..K :
                Yielded(zip.f[j]) = IF j < i THEN MinN + 1 ELSE MinN

\* a Zip4 of 2, 2, 1, 2 elements drained: the first two producers gave up 2
\* elements each, the last two 1 each
C7_Witness ==
    /\ zip.type = "Zip4" /\ AllFinite
    /\ N(1) = 2 /\ N(2) = 2 /\ N(3) = 1 /\ N(4) = 2
    /\ op = "next" /\ out.kind = "none" /\ calls = 2
    /\ Yielded(zip.f[1]) = 2 /\ Yielded(zip.f[2]) = 2
    /\ Yielded(zip.f[3]) = 1 /\ Yielded(zip.f[4]) = 1

\* C8, as claimed: once a call has reported exhaustion, no later call on the
\* same zipper returns a tuple.
C8_OneWay ==
    exhausted => Len(produced) = drained

\* Once it has reported exhaustion the producer reports it on every later pull.
IsFused(p) ==
    \A i \in 1..Len(p.script) : \A k \in (i + 1)..Len(p.script) :
        p.script[i] = "none" => p.script[k] # "some"

\* C8, amended: a call reports exhaustion exactly when the producer it stopped
\* at reported exhaustion, and when every wrapped producer is fused no call
\* after that returns a tuple.
C8_OneWayFused ==
    /\ op = "next" =>
          (out.kind = "none" <=>
              /\ Stops(prev) # {}
              /\ ProducerNext(prev.f[Reach(prev)]).out.kind = "none")
    /\ (\A j \in 1..K : IsFused(zip.f[j])) => (exhausted => Len(produced) = drained)

\* fused producers, a call made after the one that first reported exhaustion,
\* the last producer still holding elements
C8_Witness ==
    /\ \A j \in 1..K : IsFused(zip.f[j])
    /\ exhausted /\ op = "next" /\ calls = drained + 2
    /\ Remaining(zip.f[K]) > 0 /\ drained = 1

\* C9: a call ends in a panic exactly when the producer it stopped at
\* panicked, with that producer's payload, and the producers after it are not
\* pulled; exhaustion is never turned into a panic.
C9_PanicPropagates ==
    op = "next" =>
        /\ out.kind = "panic" <=>
              /\ Stops(prev) # {}
              /\ ProducerNext(prev.f[Reach(prev)]).out.kind = "panic"
        /\ out.kind = "panic" =>
              /\ out = ProducerNext(prev.f[Reach(prev)]).out
              /\ log = [j \in 1..Reach(prev) |-> j]
              /\ \A j \in (Reach(prev) + 1)..K : zip.f[j] = prev.f[j]

\* the second producer of a Zip3 panics on its second pull
C9_Witness ==
    /\ zip.type = "Zip3" /\ op = "next" /\ calls = 2
    /\ out = Panic(<<2, 1>>)
    /\ log = <<1, 2>> /\ zip.f[3].pulls = 1 /\ Remaining(zip.f[3]) > 0

\* The producer as constructed: nothing pulled yet.
RECURSIVE Rewound(_)
Rewound(p) ==
    IF p.type = "Iter" THEN [p EXCEPT !.pos = 0, !.pulls = 0]
    ELSE [p EXCEPT !.f = [j \in 1..Len(p.f) |-> Rewound(p.f[j])]]

\* The zipper and the tuples returned after n next() calls and nothing else.
RECURSIVE Replay(_, _)
Replay(z, n) ==
    IF n = 0 THEN [zip |-> z, produced |-> <<>>]
    ELSE LET before == Replay(z, n - 1)
             r == NextOf(before.zip)
         IN [zip |-> r.self,
             produced |-> IF r.out.kind = "some"
                          THEN Append(before.produced, r.out.v) ELSE before.produced]

\* C10: size_hint is read-only: however many size_hint calls were interleaved,
\* the zipper and the tuples returned are those of the next() calls alone, and
\* the pair size_hint returned is the one a further size_hint call returns.
C10_SizeHintReadOnly ==
    /\ Replay(Rewound(zip), calls) = [zip |-> zip, produced |-> produced]
    /\ op = "size_hint" => (prev = zip /\ hint = SizeHintOf(zip))

\* a size_hint between two next() calls of a Zip5 that both returned a tuple
C10_Witness ==
    /\ zip.type = "Zip5" /\ op = "size_hint" /\ calls = 1 /\ Len(produced) = 1
    /\ hint[1] = 1 /\ Drain(zip) = 1

\* C6: the nested Zip2(Zip2(P1, P2), P3) and the flat Zip3(P1, P2, P3) return a
\* value on the same calls, ((a, b), c) against (a, b, c) with the same a, b, c,
\* and leave P1, P2, P3 advanced alike.
C6_NestedAgrees ==
    /\ nest.out.kind = out.kind
    /\ out.kind = "some" =>
          /\ Len(nest.out.v) = 2 /\ Len(nest.out.v[1]) = 2 /\ Len(out.v) = 3
          /\ nest.out.v[1][1] = out.v[1]
          /\ nest.out.v[1][2] = out.v[2]
          /\ nest.out.v[2] = out.v[3]
    /\ out.kind = "panic" => nest.out = out
    /\ nest.zip.f[1].f[1] = zip.f[1]
    /\ nest.zip.f[1].f[2] = zip.f[2]
    /\ nest.zip.f[2] = zip.f[3]
    /\ nest.log = log

\* the second call of both returned the second elements, nested ((a, b), c)
C6_Witness ==
    /\ calls = 2 /\ out.kind = "some"
    /\ nest.out.v = <<<<Elem(1, 1), Elem(2, 1)>>, Elem(3, 1)>>
    /\ out.v = <<Elem(1, 1), Elem(2, 1), Elem(3, 1)>>

====
